---- MODULE Spec2Model ----
(***************************************************************************)
(* The offline sync queue of the AgriEcho PWA (class OfflineManager).      *)
(*                                                                         *)
(* JavaScript runs the handlers of one page on a single thread: a handler  *)
(* runs without interruption until it returns or reaches an await.  Every  *)
(* action below is one such uninterrupted run: an event handler from its   *)
(* entry to its first await, or the continuation of an async function from *)
(* the settlement of its fetch to its next await.  processSyncQueue awaits *)
(* only inside syncItem (the fetch and the reading of its body, taken here *)
(* as one suspension, since nothing is done between the two).              *)
(*                                                                         *)
(* Sync items are JavaScript objects shared by reference between the queue *)
(* array, the pendingItems array of every running processSyncQueue and the *)
(* closure of every retry timer.  `item` is that heap, indexed by the      *)
(* order of creation; the arrays hold indices into it.                     *)
(*                                                                         *)
(* The suspended invocations of processSyncQueue differ only by their      *)
(* pendingItems array and their place in it, so they are kept as a bag.    *)
(***************************************************************************)
EXTENDS Integers, Sequences, FiniteSets, Bags, TLC

\* ---- bounds of the model
MaxItems == 2      \* addToSyncQueue calls in a behaviour
MaxDrains == 2     \* processSyncQueue invocations suspended at the same time
MaxSent == 2       \* the request counter of an item stops counting here
MaxTime == 2       \* the clock stops here
MaxHandlers == 2   \* fetch handlers of the worker suspended at the same time
MaxPageHandlers == 1   \* the same, for navigations and the remaining requests
MaxPasses == 2     \* syncOfflineData calls suspended at the same time
MaxVersion == 2    \* versions of the server's content
MaxFailedRequests == 1   \* the count of stored failed requests stops here
MaxWeatherTime == 4      \* the clock of the weather cache stops here

\* ---- constants of the program
maxRetries == 3        \* this.maxRetries
retryDelay == 5000     \* this.retryDelay, in ms
RetentionWindow == 1   \* 24 * 60 * 60 * 1000 ms, the unit of the clock
maxAge == 2            \* this.maxAge: 6 * 60 * 60 * 1000 ms, in units of 3 h

VARIABLES
    isOnline,    \* this.isOnline
    endpointOk,  \* environment: the remote endpoint answers {success: true}
    now,         \* environment: Date.now(), in units of 24 h
    item,        \* the sync item objects: status, retries, completedAt
    syncQueue,   \* this.syncQueue: the array of items, as indices into item
    stored,      \* localStorage 'syncQueue': the JSON copy of the array
    drains,      \* the suspended processSyncQueue invocations: each its
                 \* pendingItems and the index of the item it awaits
    timers,      \* per item, the retry setTimeout callbacks not yet run
    delays,      \* per item, the delay of the last retry setTimeout, in ms
    retrying,    \* per item, the syncItem calls of retry timers awaiting fetch
    sent,        \* per item, the fetches issued for it (requests at the endpoint)
    failures     \* per item, the fetches for it that ended in a failure

VARIABLES
    netUp,           \* environment: the network carries the worker's fetches
    version,         \* environment: the version of the content the server serves
    caches,          \* the worker's CacheStorage: per cache, per request, the
                     \* version of the stored response (0: none)
    puts,            \* the cache.put operations started and not yet finished
    handlers,        \* the suspended fetch handlers of the worker
    served,          \* the requests a caller got an ok network response for
    reply,           \* what the worker answered to the last fetch event settled
    failedRequests   \* the object store 'failedRequests' of IndexedDB: how
                     \* many requests it holds

VARIABLES
    writeFailed,     \* the items whose addToSyncQueue had its write to
                     \* localStorage refused
    thrown,          \* the items whose addToSyncQueue ended in an exception
    unhandled,       \* a promise of the page was rejected with no handler
    stats            \* what the last getSyncStats call returned

VARIABLES
    weatherStore,    \* localStorage 'cachedWeatherData'
    weatherNow,      \* environment: Date.now() as the weather cache reads it,
                     \* in units of 3 h
    weatherRead,     \* what the last getCachedWeatherData call returned
    lastCached       \* the record the last cacheWeatherData call stored

\* The sync queue of the page.
queueVars == <<isOnline, endpointOk, now, item, syncQueue, stored, drains,
               timers, delays, retrying, sent, failures>>

\* The service worker.
gateVars == <<netUp, version, caches, puts, handlers, served, reply,
              failedRequests>>

\* The callers of the sync queue: how their calls ended.
callerVars == <<writeFailed, thrown, unhandled, stats>>

VARIABLES
    payload,              \* per item, the type and the data that its
                          \* addToSyncQueue call is given
    pendingSOSAlerts,     \* localStorage 'pendingSOSAlerts'
    offlineVoiceQueries   \* localStorage 'offlineVoiceQueries'

\* The local copies of the submissions, and what is submitted.
copyVars == <<payload, pendingSOSAlerts, offlineVoiceQueries>>

VARIABLES
    passes,      \* the suspended syncSOSAlerts and syncVoiceQueries calls of
                 \* the page: each its list, the index of the item whose POST
                 \* it awaits and its successfulSyncs
    submitted,   \* the alerts and the queries the user has submitted
    posted       \* environment: the alerts and the queries the server has
                 \* answered a POST of with an ok status

\* The page's own sync of the local copies.
listVars == <<passes, submitted, posted>>

\* The weather cache of the page.
weatherVars == <<weatherStore, weatherNow, weatherRead, lastCached>>

\* What the handlers of the sync queue leave alone.
outside == <<gateVars, callerVars, weatherVars, copyVars, listVars>>

\* What the worker leaves alone.
pageVars == <<queueVars, callerVars, weatherVars, copyVars, listVars>>

vars == <<queueVars, outside>>

ItemIds == 1..MaxItems

\* An index of the heap that no addToSyncQueue has used yet.
NoItem == [status |-> "none", retries |-> 0, completedAt |-> 0]

Created(it) == {i \in ItemIds : it[i].status # "none"}

Min(a, b) == IF a < b THEN a ELSE b

\* One more request counted for item i.
Count(c, i) == [c EXCEPT ![i] = Min(c[i] + 1, MaxSent)]

\* One more failed request counted for item i; maxRetries of them are told apart.
CountFailure(c, i) == [c EXCEPT ![i] = Min(c[i] + 1, maxRetries)]

\* JSON.stringify(this.syncQueue): the items by value.
Serialize(q, it) ==
    [k \in 1..Len(q) |-> [id |-> q[k], status |-> it[q[k]].status,
                          retries |-> it[q[k]].retries,
                          completedAt |-> it[q[k]].completedAt]]

\* The filter of saveSyncQueue with its test of 'failed' left out.
KeepItemNoFailed(r, t) ==
    \/ r.status = "pending"
    \/ (r.completedAt # 0 /\ r.completedAt > t - RetentionWindow)

\* The filter of saveSyncQueue: pending, failed, or completed after the cutoff.
\* A completedAt of 0 is the absent field (undefined is falsy).
KeepItem(r, t) ==
    \/ r.status = "pending"
    \/ r.status = "failed"
    \/ (r.completedAt # 0 /\ r.completedAt > t - RetentionWindow)

\* saveSyncQueue: filter the array, then write it to localStorage.
SaveSyncQueue(q, it, t) ==
    LET kept == SelectSeq(q, LAMBDA i : KeepItem(it[i], t))
    IN  [queue |-> kept, stored |-> Serialize(kept, it)]

\* pendingItems of processSyncQueue.
PendingItems(q, it) == SelectSeq(q, LAMBDA i : it[i].status = "pending")

\* A processSyncQueue invocation suspended at `await this.syncItem(item)`.
Suspended(pendingItems, idx) == [items |-> pendingItems, idx |-> idx]

\* The item whose fetch the suspended invocation dr awaits.
Awaited(dr) == dr.items[dr.idx]

\* Whether a processSyncQueue call suspends (reaches await this.syncItem).
Suspends(online, q, it) ==
    online /\ Len(q) # 0 /\ Len(PendingItems(q, it)) # 0

\* processSyncQueue from its entry to its first await, called with the queue
\* q, the persisted copy st, the suspended invocations ds and the request
\* counters c as they are at the call.  The result: the queue, the persisted
\* copy, the suspended invocations and the request counters after it.
ProcessSyncQueue(online, q, st, it, ds, c, t) ==
    IF ~online \/ Len(q) = 0
    THEN [queue |-> q, stored |-> st, drains |-> ds, sent |-> c]
    ELSE LET pendingItems == PendingItems(q, it)
         IN  IF Len(pendingItems) = 0
             THEN LET s == SaveSyncQueue(q, it, t)
                  IN  [queue |-> s.queue, stored |-> s.stored,
                       drains |-> ds, sent |-> c]
             ELSE [queue |-> q, stored |-> st,
                   drains |-> ds (+) SetToBag({Suspended(pendingItems, 1)}),
                   sent |-> Count(c, pendingItems[1])]

\* ---- the service worker: requests, responses, caches

STATIC_CACHE == "agriecho-static-v1.0.0"

DYNAMIC_CACHE == "agriecho-dynamic-v1.0.0"

\* CacheStorage keeps its caches in the order of their creation: the install
\* handler opens STATIC_CACHE before any fetch handler opens DYNAMIC_CACHE.
CacheNames == <<STATIC_CACHE, DYNAMIC_CACHE>>

\* A request as the fetch listener sees it: its method, the directory, the
\* name and the extension of its path, whether it carries a body, and its
\* accept header.
Request(method, dir, file, ext, hasBody, accept) ==
    [method |-> method, dir |-> dir, file |-> file, ext |-> ext,
     hasBody |-> hasBody, accept |-> accept]

NoRequest == Request("", "", "", "", FALSE, "")

\* The requests of the model: a stylesheet, an API read, and a submission
\* with and without a body.
Requests ==
    {Request("GET", "/css/", "app", ".css", FALSE, "*/*"),
     Request("GET", "/api/", "sync", "", FALSE, "*/*"),
     Request("POST", "/api/", "sos", "", TRUE, "*/*"),
     Request("POST", "/api/", "sos", "", FALSE, "*/*")}

\* The page '/', which caches.match('/') looks up.
RootRequest == Request("GET", "/", "", "", FALSE, "text/html")

\* The navigations and the remaining requests of the model: the page '/',
\* another page, an image under the API prefix, a GET that is none of
\* static file, API request or page, and a PUT to the API.
PageRequests ==
    {RootRequest,
     Request("GET", "/", "market", "", FALSE, "text/html"),
     Request("GET", "/api/", "logo", ".png", FALSE, "*/*"),
     Request("GET", "/", "feed", ".xml", FALSE, "*/*"),
     Request("PUT", "/api/", "sos", "", TRUE, "*/*")}

AllRequests == Requests \cup PageRequests

\* STATIC_FILES, as far as the requests of the model go.
STATIC_FILES == {RootRequest}

isStaticFile(request) ==
    \/ request.dir \in {"/css/", "/js/", "/icons/"}
    \/ request.ext \in {".png", ".jpg", ".jpeg", ".svg", ".ico"}

isAPIRequest(request) == request.dir = "/api/"

\* request.headers.get('accept')?.includes('text/html')
isPageRequest(request) == request.accept = "text/html"

\* The handler the fetch listener gives the request to; "none" when it calls
\* respondWith for no handler and the browser fetches the request itself.
Strategy(request) ==
    IF request.method = "GET"
    THEN IF isStaticFile(request) THEN "static"
         ELSE IF isAPIRequest(request) THEN "api"
         ELSE IF isPageRequest(request) THEN "page"
         ELSE "other"
    ELSE IF request.method = "POST" THEN "post"
    ELSE "none"

NoResponse == [from |-> "none", status |-> 0, version |-> 0, body |-> ""]

\* What fetch resolves with: the server's content at some version, with an
\* ok status or not.
NetworkResponse(ok, v) ==
    [from |-> "network", status |-> IF ok THEN 200 ELSE 500, version |-> v,
     body |-> "content"]

\* What caches.match resolves with when the cache holds version v.
CachedResponse(v) ==
    [from |-> "cache", status |-> 200, version |-> v, body |-> "content"]

\* new Response(body, {status})
NewResponse(status, body) ==
    [from |-> "worker", status |-> status, version |-> 0, body |-> body]

\* The handler's promise is rejected: respondWith gets no response and the
\* caller's fetch fails with a network error.
Rejected(error) ==
    [from |-> "worker", status |-> 0, version |-> 0, body |-> error]

\* The handler's promise is fulfilled with undefined: respondWith gets no
\* Response and the caller's fetch fails with a network error.
Undefined ==
    [from |-> "worker", status |-> 0, version |-> 0, body |-> "undefined"]

\* caches.match(request): the first cache, in the order of creation, that
\* holds a response for the request; 0 when none does.
CachesMatch(cs, request) ==
    IF cs[CacheNames[1]][request] # 0 THEN cs[CacheNames[1]][request]
    ELSE cs[CacheNames[2]][request]

\* handleOfflineAPIResponse(request)
handleOfflineAPIResponse(request) ==
    IF request.file = "sync"
    THEN NewResponse(200, "{success:true,data:{sos:[],queries:[],weather:[]},offline:true}")
    ELSE IF request.file = "voice-query"
    THEN NewResponse(200, "{success:true,response:...,offline:true}")
    ELSE NewResponse(503, "{success:false,error:'Service unavailable offline',offline:true}")

\* A fetch handler suspended at an await: its function, its request, the
\* await it is at, the network response it holds, and whether a caller had
\* got an ok network response for the same request before it started.
Handler(fn, request, pc, resp, late) ==
    [fn |-> fn, req |-> request, pc |-> pc, resp |-> resp, late |-> late]

\* What a settled fetch event gave its caller: the response, whether the
\* handler's fetch had been rejected, and the version its caches.match found.
Reply(h, resp, netFailed, found) ==
    [req |-> h.req, resp |-> resp, late |-> h.late, netFailed |-> netFailed,
     found |-> found]

NoReply ==
    [req |-> NoRequest, resp |-> NoResponse, late |-> FALSE,
     netFailed |-> FALSE, found |-> 0]

\* The worker before its first fetch event, with nothing cached.
GateStart ==
    /\ netUp = TRUE
    /\ version = 1
    /\ caches = [c \in {STATIC_CACHE, DYNAMIC_CACHE} |->
                    [r \in AllRequests |-> 0]]
    /\ puts = {}
    /\ handlers = EmptyBag
    /\ served = {}
    /\ reply = NoReply
    /\ failedRequests = 0

\* getSyncStats has not been called.
NoStats == [total |-> 0, pending |-> 0, completed |-> 0, failed |-> 0,
            isOnline |-> FALSE, called |-> FALSE]

\* ---- the values under the key 'cachedWeatherData' and of a read of it

\* A JSON value: null (the key is absent), the empty array, or the object
\* that cacheWeatherData builds from the data and Date.now().
Json(kind, data, cachedAt) == [kind |-> kind, data |-> data, cachedAt |-> cachedAt]

null == Json("null", "", 0)

EmptyArray == Json("[]", "", 0)

\* The payloads a caller caches.
WeatherData == {"rain", "sun"}

\* initializeOfflineStores on one key: a key that is absent gets '[]'.
InitializeStore(v) == IF v = null THEN EmptyArray ELSE v

\* getCachedWeatherData has not been called.
NoRead == [result |-> null, at |-> 0, called |-> FALSE]

\* The page after its first load: the OfflineManager is constructed before
\* the OfflineWeatherManager and has initialised the key.
WeatherStart ==
    /\ weatherStore = InitializeStore(null)
    /\ weatherNow = 0
    /\ weatherRead = NoRead
    /\ lastCached = null

\* The manager after its construction on a first start: navigator.onLine is
\* either value, localStorage holds no queue yet and initializeOfflineStores
\* writes the empty one.
Constructed ==
    /\ isOnline \in BOOLEAN
    /\ endpointOk \in BOOLEAN
    /\ now = 1
    /\ item = [i \in ItemIds |-> NoItem]
    /\ syncQueue = <<>>
    /\ stored = <<>>
    /\ drains = EmptyBag
    /\ timers = [i \in ItemIds |-> 0]
    /\ delays = [i \in ItemIds |-> 0]
    /\ retrying = [i \in ItemIds |-> 0]
    /\ sent = [i \in ItemIds |-> 0]
    /\ failures = [i \in ItemIds |-> 0]
    /\ GateStart
    /\ writeFailed = {}
    /\ thrown = {}
    /\ unhandled = FALSE
    /\ stats = NoStats
    /\ WeatherStart

\* A submission as addToSyncQueue gets it: item.type, and of item.data the
\* id (of an alert) or the query and the timestamp (of a voice query).
Payload(type, id, query, timestamp) ==
    [type |-> type, id |-> id, query |-> query, timestamp |-> timestamp]

\* The submissions of the model: two alerts, two voice queries that ask the
\* same at different times, and a submission of another type.
Payloads ==
    {Payload("sos-alert", 1, "", 0),
     Payload("sos-alert", 2, "", 0),
     Payload("voice-query", 0, "rain?", 1),
     Payload("voice-query", 0, "rain?", 2),
     Payload("article", 0, "", 0)}

\* The local copy of an alert, and of a voice query.
Alert(d) == [id |-> d.id]

Query(d) == [query |-> d.query, timestamp |-> d.timestamp]

\* The lists of at most two copies, no copy twice.
Lists(copies) ==
    {<<>>} \cup {<<c>> : c \in copies}
           \cup {x \in copies \X copies : x[1] # x[2]}

\* No local copy, and submissions that have none.
CopyStart ==
    /\ payload = [i \in ItemIds |-> Payload("article", 0, "", 0)]
    /\ pendingSOSAlerts = <<>>
    /\ offlineVoiceQueries = <<>>

\* No syncOfflineData call yet, nothing submitted, nothing at the server.
ListStart ==
    /\ passes = EmptyBag
    /\ submitted = [alerts |-> {}, queries |-> {}]
    /\ posted = [alerts |-> {}, queries |-> {}]

\* The page after its first load.
Init == Constructed /\ CopyStart /\ ListStart

\* A handler calls processSyncQueue (the model holds MaxDrains suspended
\* invocations at most).
CallProcessSyncQueue(online, q, st, it) ==
    /\ Suspends(online, q, it) => BagCardinality(drains) < MaxDrains
    /\ LET r == ProcessSyncQueue(online, q, st, it, drains, sent, now)
       IN  /\ syncQueue' = r.queue
           /\ stored' = r.stored
           /\ drains' = r.drains
           /\ sent' = r.sent

\* addToSyncQueue(type, data, endpoint, method)
AddToSyncQueue ==
    /\ Created(item) # ItemIds
    /\ LET id == Cardinality(Created(item)) + 1
           it == [item EXCEPT ![id] = [status |-> "pending", retries |-> 0,
                                       completedAt |-> 0]]
           s == SaveSyncQueue(Append(syncQueue, id), it, now)
       IN  /\ item' = it
           /\ IF isOnline
              THEN CallProcessSyncQueue(isOnline, s.queue, s.stored, it)
              ELSE /\ syncQueue' = s.queue
                   /\ stored' = s.stored
                   /\ UNCHANGED <<drains, sent>>
    /\ UNCHANGED <<isOnline, endpointOk, now, timers, delays, retrying,
                   failures>>
    /\ UNCHANGED outside

\* handleOnline without its call of processSyncQueue.
HandleOnlineNoSync ==
    /\ isOnline' = TRUE
    /\ UNCHANGED <<endpointOk, now, item, syncQueue, stored, drains, timers,
                   delays, retrying, sent, failures>>
    /\ UNCHANGED outside

\* handleOnline: the listener of the window's 'online' event
HandleOnline ==
    /\ isOnline' = TRUE
    /\ CallProcessSyncQueue(TRUE, syncQueue, stored, item)
    /\ UNCHANGED <<endpointOk, now, item, timers, delays, retrying, failures>>
    /\ UNCHANGED outside

\* A handleOffline that starts a processSyncQueue before it clears the flag.
HandleOfflineSyncs ==
    /\ isOnline' = FALSE
    /\ CallProcessSyncQueue(isOnline, syncQueue, stored, item)
    /\ UNCHANGED <<endpointOk, now, item, timers, delays, retrying, failures>>
    /\ UNCHANGED outside

\* handleOffline: the listener of the window's 'offline' event
HandleOffline ==
    /\ isOnline' = FALSE
    /\ UNCHANGED <<endpointOk, now, item, syncQueue, stored, drains, timers,
                   delays, retrying, sent, failures>>
    /\ UNCHANGED outside

\* The 30 s interval with its test of isOnline inverted.
PeriodicSyncOffline ==
    /\ IF ~isOnline /\ Len(syncQueue) > 0
       THEN CallProcessSyncQueue(isOnline, syncQueue, stored, item)
       ELSE UNCHANGED <<syncQueue, stored, drains, sent>>
    /\ UNCHANGED <<isOnline, endpointOk, now, item, timers, delays, retrying,
                   failures>>
    /\ UNCHANGED outside

\* The 30 s interval of setupPeriodicSync
PeriodicSync ==
    /\ IF isOnline /\ Len(syncQueue) > 0
       THEN CallProcessSyncQueue(isOnline, syncQueue, stored, item)
       ELSE UNCHANGED <<syncQueue, stored, drains, sent>>
    /\ UNCHANGED <<isOnline, endpointOk, now, item, timers, delays, retrying,
                   failures>>
    /\ UNCHANGED outside

\* The hourly interval of setupPeriodicSync
PeriodicCleanup ==
    /\ LET s == SaveSyncQueue(syncQueue, item, now)
       IN  /\ syncQueue' = s.queue
           /\ stored' = s.stored
    /\ UNCHANGED <<isOnline, endpointOk, now, item, drains, timers, delays,
                   retrying, sent, failures>>
    /\ UNCHANGED outside

\* forcSync, to its await of processSyncQueue; what follows the await only
\* notifies the user.
ForcSync ==
    /\ IF ~isOnline
       THEN UNCHANGED <<syncQueue, stored, drains, sent>>
       ELSE CallProcessSyncQueue(isOnline, syncQueue, stored, item)
    /\ UNCHANGED <<isOnline, endpointOk, now, item, timers, delays, retrying,
                   failures>>
    /\ UNCHANGED outside

\* removeFromLocalStorage with the voice queries matched by their text only.
removeFromLocalStorageByQuery(i) ==
    /\ IF payload[i].type = "sos-alert"
       THEN /\ pendingSOSAlerts' = SelectSeq(pendingSOSAlerts,
                   LAMBDA alert : alert.id # payload[i].id)
            /\ UNCHANGED offlineVoiceQueries
       ELSE IF payload[i].type = "voice-query"
       THEN /\ offlineVoiceQueries' = SelectSeq(offlineVoiceQueries,
                   LAMBDA query : ~(query.query = payload[i].query))
            /\ UNCHANGED pendingSOSAlerts
       ELSE UNCHANGED <<pendingSOSAlerts, offlineVoiceQueries>>
    /\ UNCHANGED payload

\* removeFromLocalStorage(item), for item i: the switch on item.type, each
\* case reading its list, filtering it and writing it back.
removeFromLocalStorage(i) ==
    /\ IF payload[i].type = "sos-alert"
       THEN /\ pendingSOSAlerts' = SelectSeq(pendingSOSAlerts,
                   LAMBDA alert : alert.id # payload[i].id)
            /\ UNCHANGED offlineVoiceQueries
       ELSE IF payload[i].type = "voice-query"
       THEN /\ offlineVoiceQueries' = SelectSeq(offlineVoiceQueries,
                   LAMBDA query : ~(/\ query.query = payload[i].query
                                    /\ query.timestamp = payload[i].timestamp))
            /\ UNCHANGED pendingSOSAlerts
       ELSE UNCHANGED <<pendingSOSAlerts, offlineVoiceQueries>>
    /\ UNCHANGED payload

\* syncItem after its awaits, the server having answered {success: true}.
Completed(r, t) == [r EXCEPT !.status = "completed", !.completedAt = t]

\* The catch block of processSyncQueue: item.retries++, then the test.
Caught(r) ==
    [r EXCEPT !.retries = @ + 1,
              !.status = IF r.retries + 1 >= maxRetries THEN "failed" ELSE @]

\* The test of the catch block with > for >=.
RetryLaterInclusive(r) == ~(r.retries > maxRetries)

\* Whether the catch block sets a retry timer for the item it has updated.
RetryLater(r) == ~(r.retries >= maxRetries)

\* The delay that the catch block gives setTimeout.
RetryDelay(r) == retryDelay * r.retries

\* The else branch of the catch block, for item i as the block has updated
\* it: one setTimeout more for the item.
SetRetryTimer(i, r) ==
    IF RetryLater(r)
    THEN /\ timers' = [timers EXCEPT ![i] = @ + 1]
         /\ delays' = [delays EXCEPT ![i] = RetryDelay(r)]
    ELSE UNCHANGED <<timers, delays>>

\* The suspended invocation dr of processSyncQueue, from the settlement of
\* `await this.syncItem(item)` to its next await or its end; it is the heap
\* after the try/catch.
Continue(dr, it) ==
    LET rest == drains (-) SetToBag({dr})
    IN  IF dr.idx < Len(dr.items)
        THEN /\ drains' = rest (+) SetToBag({Suspended(dr.items, dr.idx + 1)})
             /\ sent' = Count(sent, dr.items[dr.idx + 1])
             /\ UNCHANGED <<syncQueue, stored>>
        ELSE LET s == SaveSyncQueue(syncQueue, it, now)
             IN  /\ syncQueue' = s.queue
                 /\ stored' = s.stored
                 /\ drains' = rest
                 /\ UNCHANGED sent

\* The fetch of a suspended processSyncQueue succeeds.
DrainDelivered(dr) ==
    /\ BagIn(dr, drains)
    /\ endpointOk
    /\ LET i == Awaited(dr)
           it == [item EXCEPT ![i] = Completed(item[i], now)]
       IN  /\ item' = it
           /\ Continue(dr, it)
           /\ removeFromLocalStorage(i)
    /\ UNCHANGED <<isOnline, endpointOk, now, timers, delays, retrying,
                   failures>>
    /\ UNCHANGED <<gateVars, callerVars, weatherVars, listVars>>

\* A processSyncQueue whose loop ends at the first item that fails: the
\* catch block is run, the queue is saved and the invocation is over.
DrainFailedStops(dr) ==
    /\ BagIn(dr, drains)
    /\ ~endpointOk
    /\ LET i == Awaited(dr)
           it == [item EXCEPT ![i] = Caught(item[i])]
           s == SaveSyncQueue(syncQueue, it, now)
       IN  /\ item' = it
           /\ SetRetryTimer(i, it[i])
           /\ failures' = CountFailure(failures, i)
           /\ syncQueue' = s.queue
           /\ stored' = s.stored
           /\ drains' = drains (-) SetToBag({dr})
           /\ UNCHANGED sent
    /\ UNCHANGED <<isOnline, endpointOk, now, retrying>>
    /\ UNCHANGED outside

\* The fetch of a suspended processSyncQueue fails: syncItem throws.
DrainFailed(dr) ==
    /\ BagIn(dr, drains)
    /\ ~endpointOk
    /\ LET i == Awaited(dr)
           it == [item EXCEPT ![i] = Caught(item[i])]
       IN  /\ item' = it
           /\ SetRetryTimer(i, it[i])
           /\ failures' = CountFailure(failures, i)
           /\ Continue(dr, it)
    /\ UNCHANGED <<isOnline, endpointOk, now, retrying>>
    /\ UNCHANGED outside

\* The fetch that some suspended processSyncQueue awaits settles.
DrainDelivers == \E dr \in BagToSet(drains) : DrainDelivered(dr)

DrainFails == \E dr \in BagToSet(drains) : DrainFailed(dr)

\* What the callback of the retry setTimeout does for item i.
RetryCallback(i) ==
    IF isOnline
    THEN /\ sent' = Count(sent, i)
         /\ retrying' = [retrying EXCEPT ![i] = @ + 1]
    ELSE UNCHANGED <<sent, retrying>>

\* A retry timer of item i runs.
RetryTimer(i) ==
    /\ timers[i] > 0
    /\ timers' = [timers EXCEPT ![i] = @ - 1]
    /\ RetryCallback(i)
    /\ UNCHANGED <<isOnline, endpointOk, now, item, syncQueue, stored, drains,
                   delays, failures>>
    /\ UNCHANGED outside

\* The fetch of a retry timer's syncItem succeeds.
RetryDelivered(i) ==
    /\ retrying[i] > 0
    /\ endpointOk
    /\ retrying' = [retrying EXCEPT ![i] = @ - 1]
    /\ item' = [item EXCEPT ![i] = Completed(item[i], now)]
    /\ removeFromLocalStorage(i)
    /\ UNCHANGED <<isOnline, endpointOk, now, syncQueue, stored, drains, timers,
                   delays, sent, failures>>
    /\ UNCHANGED <<gateVars, callerVars, weatherVars, listVars>>

\* The fetch of a retry timer's syncItem fails: the promise of syncItem is
\* rejected and nothing handles it.
RetryFailed(i) ==
    /\ retrying[i] > 0
    /\ ~endpointOk
    /\ retrying' = [retrying EXCEPT ![i] = @ - 1]
    /\ failures' = CountFailure(failures, i)
    /\ unhandled' = TRUE
    /\ UNCHANGED <<isOnline, endpointOk, now, item, syncQueue, stored, drains,
                   timers, delays, sent>>
    /\ UNCHANGED <<gateVars, writeFailed, thrown, stats, weatherVars, copyVars,
                   listVars>>

\* Environment: the remote endpoint starts or stops accepting requests.
EndpointChange ==
    /\ endpointOk' = ~endpointOk
    /\ UNCHANGED <<isOnline, now, item, syncQueue, stored, drains, timers,
                   delays, retrying, sent, failures>>
    /\ UNCHANGED outside

\* Environment: time passes.
Tick ==
    /\ now < MaxTime
    /\ now' = now + 1
    /\ UNCHANGED <<isOnline, endpointOk, item, syncQueue, stored, drains,
                   timers, delays, retrying, sent, failures>>
    /\ UNCHANGED outside

Next ==
    \/ AddToSyncQueue
    \/ HandleOnline
    \/ HandleOffline
    \/ PeriodicSync
    \/ PeriodicCleanup
    \/ ForcSync
    \/ DrainDelivers
    \/ DrainFails
    \/ \E i \in ItemIds : RetryTimer(i)
    \/ \E i \in ItemIds : RetryDelivered(i)
    \/ \E i \in ItemIds : RetryFailed(i)
    \/ EndpointChange
    \/ Tick

Spec == Init /\ [][Next]_vars

\* ---- time standing still: the behaviours within one retention window,
\* with the fairness of the page's scheduling: the 30 s interval keeps
\* firing, and a fetch that a processSyncQueue awaits settles.
DrainSettles == DrainDelivers \/ DrainFails

LiveNext ==
    \/ AddToSyncQueue
    \/ HandleOnline
    \/ HandleOffline
    \/ PeriodicSync
    \/ PeriodicCleanup
    \/ ForcSync
    \/ DrainDelivers
    \/ DrainFails
    \/ \E i \in ItemIds : RetryTimer(i)
    \/ \E i \in ItemIds : RetryDelivered(i)
    \/ \E i \in ItemIds : RetryFailed(i)
    \/ EndpointChange

Fairness == WF_vars(PeriodicSync) /\ WF_vars(DrainSettles)

LiveSpec == Init /\ [][LiveNext]_vars /\ Fairness

\* ---- the scenario of submissions queued offline: the manager starts
\* offline with an accepting endpoint, entries are queued while it is offline,
\* the connection comes back once, and the program's own intervals run.
OfflineInit ==
    /\ Init
    /\ ~isOnline
    /\ endpointOk

EnqueueOffline == ~isOnline /\ AddToSyncQueue

GoOnline == ~isOnline /\ HandleOnline

OfflineNext ==
    \/ EnqueueOffline
    \/ GoOnline
    \/ PeriodicSync
    \/ PeriodicCleanup
    \/ DrainDelivers
    \/ Tick

OfflineSpec == OfflineInit /\ [][OfflineNext]_vars

\* ---- the page is loaded again, and localStorage may refuse a write

\* JSON.parse of the stored queue: the objects of a new page, by value.
\* An item that the stored queue does not hold exists no more.
Deserialize(st, it) ==
    [i \in ItemIds |->
        IF \E k \in 1..Len(st) : st[k].id = i
        THEN LET r == st[CHOOSE k \in 1..Len(st) : st[k].id = i]
             IN  [status |-> r.status, retries |-> r.retries,
                  completedAt |-> r.completedAt]
        ELSE IF it[i].status = "none" THEN NoItem
        ELSE [it[i] EXCEPT !.status = "gone"]]

\* The page is loaded again: its handlers, timers and fetches are gone, and
\* the constructor reads the queue from localStorage.
Reload ==
    /\ isOnline' \in BOOLEAN
    /\ syncQueue' = [k \in 1..Len(stored) |-> stored[k].id]
    /\ item' = Deserialize(stored, item)
    /\ drains' = EmptyBag
    /\ timers' = [i \in ItemIds |-> 0]
    /\ delays' = [i \in ItemIds |-> 0]
    /\ retrying' = [i \in ItemIds |-> 0]
    /\ weatherStore' = InitializeStore(weatherStore)
    /\ UNCHANGED <<endpointOk, now, stored, sent, failures>>
    /\ passes' = EmptyBag
    /\ UNCHANGED <<gateVars, callerVars, weatherNow, weatherRead, lastCached,
                   copyVars, submitted, posted>>

\* addToSyncQueue when localStorage.setItem throws (the quota is exceeded,
\* storage is disabled): saveSyncQueue has filtered and assigned the array,
\* the exception leaves saveSyncQueue and addToSyncQueue, neither of which
\* catches it, and processSyncQueue is not called.
AddToSyncQueueThrows ==
    /\ Created(item) # ItemIds
    /\ LET id == Cardinality(Created(item)) + 1
           it == [item EXCEPT ![id] = [status |-> "pending", retries |-> 0,
                                       completedAt |-> 0]]
           s == SaveSyncQueue(Append(syncQueue, id), it, now)
       IN  /\ item' = it
           /\ syncQueue' = s.queue
           /\ writeFailed' = writeFailed \cup {id}
           /\ thrown' = thrown \cup {id}
    /\ UNCHANGED <<isOnline, endpointOk, now, stored, drains, timers, delays,
                   retrying, sent, failures>>
    /\ UNCHANGED <<gateVars, unhandled, stats, weatherVars, copyVars, listVars>>

\* Time stands still, as in LiveNext.
StoreNext ==
    \/ AddToSyncQueue
    \/ AddToSyncQueueThrows
    \/ Reload
    \/ HandleOnline
    \/ HandleOffline
    \/ PeriodicSync
    \/ PeriodicCleanup
    \/ DrainDelivers
    \/ DrainFails
    \/ \E i \in ItemIds : RetryTimer(i)
    \/ \E i \in ItemIds : RetryDelivered(i)
    \/ \E i \in ItemIds : RetryFailed(i)
    \/ EndpointChange

StoreSpec == Init /\ [][StoreNext]_vars

\* ---- the answers of the remote endpoint, one kind of failure from another

\* What the fetch of syncItem ends in: whether fetch resolves at all, whether
\* the status is a success (response.ok), whether the body is JSON, and the
\* success field of the parsed body.
Answer(resolves, ok, json, success) ==
    [resolves |-> resolves, ok |-> ok, json |-> json, success |-> success]

Answers ==
    {Answer(TRUE, TRUE, TRUE, "true"),      \* {success: true}
     Answer(FALSE, FALSE, FALSE, "absent"), \* fetch is rejected
     Answer(TRUE, FALSE, TRUE, "true"),     \* HTTP 500
     Answer(TRUE, TRUE, FALSE, "absent"),   \* the body is not JSON
     Answer(TRUE, TRUE, TRUE, "absent"),    \* no success field
     Answer(TRUE, TRUE, TRUE, "false")}     \* {success: false}

\* syncItem on the answer: `await fetch` throws when fetch is rejected, a
\* status that is not ok throws, `await response.json()` throws on a body
\* that is not JSON, and a result.success that is not truthy throws.
\* FALSE: syncItem throws; TRUE: it marks the item completed.
SyncItemReturns(answer) ==
    IF ~answer.resolves THEN FALSE
    ELSE IF ~answer.ok THEN FALSE
    ELSE IF ~answer.json THEN FALSE
    ELSE answer.success = "true"

\* Environment: from now on the endpoint answers with the answer.
EndpointAnswers(answer) ==
    /\ endpointOk' = SyncItemReturns(answer)
    /\ UNCHANGED <<isOnline, now, item, syncQueue, stored, drains, timers,
                   delays, retrying, sent, failures>>
    /\ UNCHANGED outside

\* The queue of a page against an endpoint that gives any of the answers,
\* with time standing still.
AnswerNext ==
    \/ AddToSyncQueue
    \/ HandleOnline
    \/ HandleOffline
    \/ PeriodicSync
    \/ DrainDelivers
    \/ DrainFails
    \/ \E i \in ItemIds : RetryTimer(i)
    \/ \E i \in ItemIds : RetryDelivered(i)
    \/ \E i \in ItemIds : RetryFailed(i)
    \/ \E answer \in Answers : EndpointAnswers(answer)

AnswerSpec == Init /\ [][AnswerNext]_vars

\* ---- the local copies of the submissions

\* The manager online, with submissions of any of the payloads to come and
\* any local copies in the two lists.
CopyInit ==
    /\ Constructed
    /\ isOnline
    /\ payload \in [ItemIds -> Payloads]
    /\ pendingSOSAlerts
           \in Lists({Alert(d) : d \in {e \in Payloads : e.type = "sos-alert"}})
    /\ offlineVoiceQueries
           \in Lists({Query(d) : d \in {e \in Payloads : e.type = "voice-query"}})
    /\ ListStart

CopyNext ==
    \/ AddToSyncQueue
    \/ DrainDelivers
    \/ DrainFails
    \/ \E i \in ItemIds : RetryTimer(i)
    \/ \E i \in ItemIds : RetryDelivered(i)
    \/ \E i \in ItemIds : RetryFailed(i)
    \/ EndpointChange

CopySpec == CopyInit /\ [][CopyNext]_vars

\* ---- the page's sync of its pending lists (syncOfflineData)

Alerts == {Alert(d) : d \in {e \in Payloads : e.type = "sos-alert"}}

Queries == {Query(d) : d \in {e \in Payloads : e.type = "voice-query"}}

Elements(list) == {list[k] : k \in 1..Len(list)}

\* A syncSOSAlerts or syncVoiceQueries call suspended at `await fetch(...)`:
\* its parameter, the index of the item of the for loop, successfulSyncs.
Pass(fn, items, idx, successfulSyncs) ==
    [fn |-> fn, items |-> items, idx |-> idx,
     successfulSyncs |-> successfulSyncs]

\* alerts.filter(alert => !successfulSyncs.includes(alert.id))
remainingAlerts(alerts, successfulSyncs) ==
    SelectSeq(alerts, LAMBDA alert : alert.id \notin successfulSyncs)

\* remainingQueries matching a synced query by its text alone.
remainingQueriesByQuery(queries, successfulSyncs) ==
    SelectSeq(queries, LAMBDA query :
        ~\E synced \in successfulSyncs : synced.query = query.query)

\* queries.filter(query => !successfulSyncs.some(synced =>
\*     synced.query === query.query && synced.timestamp === query.timestamp))
remainingQueries(queries, successfulSyncs) ==
    SelectSeq(queries, LAMBDA query :
        ~\E synced \in successfulSyncs :
            synced.query = query.query /\ synced.timestamp = query.timestamp)

\* syncOfflineData from `const offlineQueries = JSON.parse(...)` on: the
\* queries are read and, when there are any, syncVoiceQueries runs to its
\* first fetch.  ps is the bag of the other suspended calls.
ThenVoiceQueries(ps) ==
    IF Len(offlineVoiceQueries) > 0
    THEN ps (+) SetToBag({Pass("syncVoiceQueries", offlineVoiceQueries, 1, {})})
    ELSE ps

\* syncOfflineData, called by the online listener, by DOMContentLoaded and
\* by the 5-minute interval while navigator.onLine: the alerts are read and,
\* when there are any, syncSOSAlerts runs to its first fetch.
SyncOfflineData ==
    /\ isOnline
    /\ BagCardinality(passes) < MaxPasses
    /\ passes' = IF Len(pendingSOSAlerts) > 0
                 THEN passes (+) SetToBag({Pass("syncSOSAlerts",
                                                pendingSOSAlerts, 1, {})})
                 ELSE ThenVoiceQueries(passes)
    /\ UNCHANGED <<queueVars, gateVars, callerVars, weatherVars, copyVars,
                   submitted, posted>>

\* syncSOSAlerts reading the list again before it filters it and writes it
\* back.
AlertAnsweredRereads(p, ok) ==
    /\ BagIn(p, passes)
    /\ p.fn = "syncSOSAlerts"
    /\ LET alert == p.items[p.idx]
           successfulSyncs == IF ok THEN p.successfulSyncs \cup {alert.id}
                              ELSE p.successfulSyncs
       IN  /\ posted' = IF ok THEN [posted EXCEPT !.alerts = @ \cup {alert}]
                        ELSE posted
           /\ IF p.idx < Len(p.items)
              THEN /\ passes' = (passes (-) SetToBag({p})) (+) SetToBag({
                          Pass(p.fn, p.items, p.idx + 1, successfulSyncs)})
                   /\ UNCHANGED pendingSOSAlerts
              ELSE /\ pendingSOSAlerts'
                          = remainingAlerts(pendingSOSAlerts, successfulSyncs)
                   /\ passes' = ThenVoiceQueries(passes (-) SetToBag({p}))
    /\ UNCHANGED <<queueVars, gateVars, callerVars, weatherVars, payload,
                   offlineVoiceQueries, submitted>>

\* The fetch of syncSOSAlerts is settled: with an ok response the alert's id
\* is pushed to successfulSyncs; a response that is not ok and a rejection
\* leave it alone.  After the last alert the list is written back and
\* syncOfflineData goes on to the voice queries.
AlertAnswered(p, ok) ==
    /\ BagIn(p, passes)
    /\ p.fn = "syncSOSAlerts"
    /\ LET alert == p.items[p.idx]
           successfulSyncs == IF ok THEN p.successfulSyncs \cup {alert.id}
                              ELSE p.successfulSyncs
       IN  /\ posted' = IF ok THEN [posted EXCEPT !.alerts = @ \cup {alert}]
                        ELSE posted
           /\ IF p.idx < Len(p.items)
              THEN /\ passes' = (passes (-) SetToBag({p})) (+) SetToBag({
                          Pass(p.fn, p.items, p.idx + 1, successfulSyncs)})
                   /\ UNCHANGED pendingSOSAlerts
              ELSE /\ pendingSOSAlerts'
                          = remainingAlerts(p.items, successfulSyncs)
                   /\ passes' = ThenVoiceQueries(passes (-) SetToBag({p}))
    /\ UNCHANGED <<queueVars, gateVars, callerVars, weatherVars, payload,
                   offlineVoiceQueries, submitted>>

\* The fetch of syncVoiceQueries is settled; after the last query the list
\* is written back.
QueryAnswered(p, ok) ==
    /\ BagIn(p, passes)
    /\ p.fn = "syncVoiceQueries"
    /\ LET query == p.items[p.idx]
           successfulSyncs == IF ok THEN p.successfulSyncs \cup {query}
                              ELSE p.successfulSyncs
       IN  /\ posted' = IF ok THEN [posted EXCEPT !.queries = @ \cup {query}]
                        ELSE posted
           /\ IF p.idx < Len(p.items)
              THEN /\ passes' = (passes (-) SetToBag({p})) (+) SetToBag({
                          Pass(p.fn, p.items, p.idx + 1, successfulSyncs)})
                   /\ UNCHANGED offlineVoiceQueries
              ELSE /\ offlineVoiceQueries'
                          = remainingQueries(p.items, successfulSyncs)
                   /\ passes' = passes (-) SetToBag({p})
    /\ UNCHANGED <<queueVars, gateVars, callerVars, weatherVars, payload,
                   pendingSOSAlerts, submitted>>

\* The user submits an alert that cannot be sent: the page reads the list of
\* pending alerts, appends the alert, which has a new id, and writes the list
\* back.
AppendAlert(alert) ==
    /\ alert \notin submitted.alerts
    /\ pendingSOSAlerts' = Append(pendingSOSAlerts, alert)
    /\ submitted' = [submitted EXCEPT !.alerts = @ \cup {alert}]
    /\ UNCHANGED <<queueVars, gateVars, callerVars, weatherVars, payload,
                   offlineVoiceQueries, passes, posted>>

\* The same for a voice query, which has a new timestamp.
AppendQuery(query) ==
    /\ query \notin submitted.queries
    /\ offlineVoiceQueries' = Append(offlineVoiceQueries, query)
    /\ submitted' = [submitted EXCEPT !.queries = @ \cup {query}]
    /\ UNCHANGED <<queueVars, gateVars, callerVars, weatherVars, payload,
                   pendingSOSAlerts, passes, posted>>

AlertsAnswered ==
    \E p \in BagToSet(passes) : \E ok \in BOOLEAN : AlertAnswered(p, ok)

QueriesAnswered ==
    \E p \in BagToSet(passes) : \E ok \in BOOLEAN : QueryAnswered(p, ok)

AppendsAlert == \E alert \in Alerts : AppendAlert(alert)

AppendsQuery == \E query \in Queries : AppendQuery(query)

\* The page online, with the lists that earlier sessions left.
ListInit ==
    /\ Constructed
    /\ isOnline
    /\ payload = [i \in ItemIds |-> Payload("article", 0, "", 0)]
    /\ pendingSOSAlerts \in Lists(Alerts)
    /\ offlineVoiceQueries \in Lists(Queries)
    /\ passes = EmptyBag
    /\ submitted = [alerts |-> Elements(pendingSOSAlerts),
                    queries |-> Elements(offlineVoiceQueries)]
    /\ posted = [alerts |-> {}, queries |-> {}]

ListNext ==
    \/ SyncOfflineData
    \/ AlertsAnswered
    \/ QueriesAnswered
    \/ AppendsAlert
    \/ AppendsQuery

ListSpec == ListInit /\ [][ListNext]_vars

\* ---- the statistics of the queue

\* A getSyncStats that saves the queue before it counts.
GetSyncStatsSaves ==
    /\ LET s == SaveSyncQueue(syncQueue, item, now)
       IN  /\ syncQueue' = s.queue
           /\ stored' = s.stored
           /\ stats' = [total |-> Len(s.queue),
                        pending |-> Len(PendingItems(s.queue, item)),
                        completed |-> Len(SelectSeq(s.queue,
                            LAMBDA i : item[i].status = "completed")),
                        failed |-> Len(SelectSeq(s.queue,
                            LAMBDA i : item[i].status = "failed")),
                        isOnline |-> isOnline,
                        called |-> TRUE]
    /\ UNCHANGED <<isOnline, endpointOk, now, item, drains, timers, delays,
                   retrying, sent, failures>>
    /\ UNCHANGED <<gateVars, writeFailed, thrown, unhandled, weatherVars,
                   copyVars, listVars>>

\* getSyncStats(): the length of the array, the lengths of its three
\* filters by status, and this.isOnline.
GetSyncStats ==
    /\ stats' = [total |-> Len(syncQueue),
                 pending |-> Len(PendingItems(syncQueue, item)),
                 completed |-> Len(SelectSeq(syncQueue,
                     LAMBDA i : item[i].status = "completed")),
                 failed |-> Len(SelectSeq(syncQueue,
                     LAMBDA i : item[i].status = "failed")),
                 isOnline |-> isOnline,
                 called |-> TRUE]
    /\ UNCHANGED queueVars
    /\ UNCHANGED <<gateVars, writeFailed, thrown, unhandled, weatherVars,
                   copyVars, listVars>>

\* The queue with its callers reading the statistics at any point, in the
\* behaviours where no retry timer comes due: the entries fail through the
\* drains that the handlers start.
StatsNext ==
    \/ AddToSyncQueue
    \/ HandleOnline
    \/ HandleOffline
    \/ PeriodicCleanup
    \/ DrainDelivers
    \/ DrainFails
    \/ EndpointChange
    \/ Tick
    \/ GetSyncStats

StatsSpec == Init /\ [][StatsNext]_vars

\* ---- the weather cache

\* cacheWeatherData(data): the data with cachedAt: Date.now(), under the key.
CacheWeatherData(data) ==
    /\ weatherStore' = Json("object", data, weatherNow)
    /\ lastCached' = weatherStore'
    /\ UNCHANGED <<weatherNow, weatherRead>>
    /\ UNCHANGED <<queueVars, gateVars, callerVars, copyVars, listVars>>

\* age > this.maxAge, where age is Date.now() - data.cachedAt: the empty
\* array has no cachedAt, its age is NaN and no comparison with NaN is true.
TooOld(data, t) == data.kind = "object" /\ t - data.cachedAt > maxAge

\* getCachedWeatherData(): null when the key is absent; a value that is too
\* old is removed and null returned; any other value is returned.
GetCachedWeatherData ==
    /\ IF weatherStore = null
       THEN /\ weatherRead' = [result |-> null, at |-> weatherNow, called |-> TRUE]
            /\ UNCHANGED weatherStore
       ELSE IF TooOld(weatherStore, weatherNow)
       THEN /\ weatherStore' = null
            /\ weatherRead' = [result |-> null, at |-> weatherNow, called |-> TRUE]
       ELSE /\ weatherRead' = [result |-> weatherStore, at |-> weatherNow,
                               called |-> TRUE]
            /\ UNCHANGED weatherStore
    /\ UNCHANGED <<weatherNow, lastCached>>
    /\ UNCHANGED <<queueVars, gateVars, callerVars, copyVars, listVars>>

\* isCacheValid(), on what its getCachedWeatherData call returned.
isCacheValid(cached) == cached # null

\* Three hours pass.
WeatherTick ==
    /\ weatherNow < MaxWeatherTime
    /\ weatherNow' = weatherNow + 1
    /\ UNCHANGED <<weatherStore, weatherRead, lastCached>>
    /\ UNCHANGED <<queueVars, gateVars, callerVars, copyVars, listVars>>

CachesWeatherData == \E data \in WeatherData : CacheWeatherData(data)

WeatherNext ==
    \/ CachesWeatherData
    \/ GetCachedWeatherData
    \/ Reload
    \/ WeatherTick

WeatherSpec == Init /\ [][WeatherNext]_vars

\* ---- the service worker: its fetch handlers.  Every action is the run of
\* one handler from the settlement of an await to its next await or its end.

\* The handler h ends: respondWith gets resp (or the rejection it stands for).
Settle(h, resp, netFailed, found) ==
    /\ handlers' = handlers (-) SetToBag({h})
    /\ reply' = Reply(h, resp, netFailed, found)
    /\ served' = IF h.fn = "static" /\ resp.from = "network" /\ resp.status = 200
                 THEN served \cup {h.req} ELSE served

\* The handler h goes on to its next await, as g.
Suspend(h, g) ==
    /\ handlers' = (handlers (-) SetToBag({h})) (+) SetToBag({g})
    /\ UNCHANGED <<reply, served>>

\* The fetch listener: a fetch event for the request, given to a handler,
\* which runs to its first await (caches.match for a static file, fetch for
\* the others).
FetchEvent(request) ==
    /\ Strategy(request) # "none"
    /\ BagCardinality(handlers) < MaxHandlers
    /\ handlers' = handlers (+) SetToBag({
           Handler(Strategy(request), request,
                   IF Strategy(request) = "static" THEN "match" ELSE "fetch",
                   NoResponse, request \in served)})
    /\ UNCHANGED <<netUp, version, caches, puts, served, reply, failedRequests>>
    /\ UNCHANGED pageVars

\* handleStaticFile after `await caches.match(request)`
StaticMatched(h) ==
    /\ BagIn(h, handlers)
    /\ h.fn = "static" /\ h.pc = "match"
    /\ LET v == CachesMatch(caches, h.req)
       IN  IF v # 0
           THEN Settle(h, CachedResponse(v), FALSE, v)
           ELSE Suspend(h, [h EXCEPT !.pc = "fetch"])
    /\ UNCHANGED <<netUp, version, caches, puts, failedRequests>>
    /\ UNCHANGED pageVars

\* `await fetch(request)` resolves, with an ok status or another one.
\* handleStaticFile and handleAPIRequest go on to caches.open when it is ok
\* and return the response when it is not; handlePostRequest returns it.
FetchResolved(h, ok) ==
    /\ BagIn(h, handlers)
    /\ h.pc = "fetch"
    /\ netUp
    /\ LET r == NetworkResponse(ok, version)
       IN  IF h.fn \in {"static", "api", "page"} /\ ok
           THEN Suspend(h, [h EXCEPT !.pc = "open", !.resp = r])
           ELSE Settle(h, r, FALSE, 0)
    /\ UNCHANGED <<netUp, version, caches, puts, failedRequests>>
    /\ UNCHANGED pageVars

\* `await fetch(request)` is rejected.  handleStaticFile answers 503, and so
\* does handleOtherRequest; handleAPIRequest and handlePageRequest go on to
\* caches.match; handlePostRequest goes on to
\* `await request.text()`: fetch(request) has taken the body of the request,
\* so for a request with a body text() is rejected with a TypeError, which
\* nothing in the handler catches.
FetchRejected(h) ==
    /\ BagIn(h, handlers)
    /\ h.pc = "fetch"
    /\ ~netUp
    /\ IF h.fn = "static"
       THEN Settle(h, NewResponse(503, "File not available offline"), TRUE, 0)
       ELSE IF h.fn \in {"api", "page"}
       THEN Suspend(h, [h EXCEPT !.pc = "match"])
       ELSE IF h.fn = "other"
       THEN Settle(h, NewResponse(503, "Request failed"), TRUE, 0)
       ELSE IF h.req.hasBody
       THEN Settle(h, Rejected("TypeError"), TRUE, 0)
       ELSE Suspend(h, [h EXCEPT !.pc = "store"])
    /\ UNCHANGED <<netUp, version, caches, puts, failedRequests>>
    /\ UNCHANGED pageVars

\* handleStaticFile, handleAPIRequest and handlePageRequest after
\* `await caches.open(...)`:
\* cache.put is started and not awaited, and the response is returned.
CacheOpened(h) ==
    /\ BagIn(h, handlers)
    /\ h.pc = "open"
    /\ puts' = puts \cup {[cache |-> IF h.fn = "static" THEN STATIC_CACHE
                                     ELSE DYNAMIC_CACHE,
                           req |-> h.req, version |-> h.resp.version]}
    /\ Settle(h, h.resp, FALSE, 0)
    /\ UNCHANGED <<netUp, version, caches, failedRequests>>
    /\ UNCHANGED pageVars

\* A cache.put that was started finishes: the cache holds the response.
PutDone(p) ==
    /\ p \in puts
    /\ puts' = puts \ {p}
    /\ caches' = [caches EXCEPT ![p.cache][p.req] = p.version]
    /\ UNCHANGED <<netUp, version, handlers, served, reply, failedRequests>>
    /\ UNCHANGED pageVars

\* The catch block of handleAPIRequest after `await caches.match(request)`.
\* The headers of a response that comes from a cache are immutable, and so
\* are those of its clone: response.headers.set throws a TypeError, inside
\* the catch block, and the handler's promise is rejected.
ApiMatched(h) ==
    /\ BagIn(h, handlers)
    /\ h.fn = "api" /\ h.pc = "match"
    /\ LET v == CachesMatch(caches, h.req)
       IN  IF v # 0
           THEN Settle(h, Rejected("TypeError"), TRUE, v)
           ELSE Settle(h, handleOfflineAPIResponse(h.req), TRUE, 0)
    /\ UNCHANGED <<netUp, version, caches, puts, failedRequests>>
    /\ UNCHANGED pageVars

\* handlePostRequest after `await request.text()`, through storeFailedRequest
\* (openDB, store.add; an error of either is caught and logged there) to its
\* return of the 202 response.
RequestStored(h, dbOk) ==
    /\ BagIn(h, handlers)
    /\ h.pc = "store"
    /\ failedRequests' = IF dbOk THEN Min(failedRequests + 1, MaxFailedRequests)
                         ELSE failedRequests
    /\ Settle(h, NewResponse(202, "{success:false,queued:true}"), TRUE, 0)
    /\ UNCHANGED <<netUp, version, caches, puts>>
    /\ UNCHANGED pageVars

\* The catch block of handlePageRequest after `await caches.match(request)`:
\* the cached page is returned; with none, the handler goes on to
\* caches.match('/').
PageMatched(h) ==
    /\ BagIn(h, handlers)
    /\ h.fn = "page" /\ h.pc = "match"
    /\ LET v == CachesMatch(caches, h.req)
       IN  IF v # 0
           THEN Settle(h, CachedResponse(v), TRUE, v)
           ELSE Suspend(h, [h EXCEPT !.pc = "root"])
    /\ UNCHANGED <<netUp, version, caches, puts, failedRequests>>
    /\ UNCHANGED pageVars

\* `return caches.match('/') || new Response('Offline', {status: 503})`:
\* caches.match returns a promise, an object, so || never gets to its right
\* side; the handler's promise takes what the promise of caches.match
\* resolves with, the cached page or undefined.
RootMatched(h) ==
    /\ BagIn(h, handlers)
    /\ h.fn = "page" /\ h.pc = "root"
    /\ LET v == CachesMatch(caches, RootRequest)
       IN  IF v # 0
           THEN Settle(h, CachedResponse(v), TRUE, 0)
           ELSE Settle(h, Undefined, TRUE, 0)
    /\ UNCHANGED <<netUp, version, caches, puts, failedRequests>>
    /\ UNCHANGED pageVars

\* The fetch listener on a request whose method is neither GET nor POST: it
\* calls respondWith for no handler, and the browser fetches the request as
\* if there were no worker.
FetchIgnored(request, ok) ==
    /\ Strategy(request) = "none"
    /\ reply' = Reply(Handler("none", request, "", NoResponse, FALSE),
                      IF netUp THEN NetworkResponse(ok, version)
                      ELSE Rejected("NetworkError"),
                      ~netUp, 0)
    /\ UNCHANGED <<netUp, version, caches, puts, handlers, served,
                   failedRequests>>
    /\ UNCHANGED pageVars

\* The install handler, before the worker's first fetch event:
\* cache.addAll(STATIC_FILES) stores all the files or, when a fetch of one
\* of them fails, none (the error is caught and logged).
InstallEvent(ok) ==
    /\ reply = NoReply /\ handlers = EmptyBag /\ puts = {}
    /\ \A c \in {STATIC_CACHE, DYNAMIC_CACHE} : \A r \in AllRequests :
           caches[c][r] = 0
    /\ caches' = IF ok /\ netUp
                 THEN [caches EXCEPT ![STATIC_CACHE] =
                          [r \in AllRequests |->
                              IF r \in STATIC_FILES THEN version ELSE 0]]
                 ELSE caches
    /\ UNCHANGED <<netUp, version, puts, handlers, served, reply,
                   failedRequests>>
    /\ UNCHANGED pageVars

\* Environment: the network goes away or comes back.
NetChange ==
    /\ netUp' = ~netUp
    /\ UNCHANGED <<version, caches, puts, handlers, served, reply, failedRequests>>
    /\ UNCHANGED pageVars

\* Environment: the server's content changes.
ContentChange ==
    /\ version < MaxVersion
    /\ version' = version + 1
    /\ UNCHANGED <<netUp, caches, puts, handlers, served, reply, failedRequests>>
    /\ UNCHANGED pageVars

StaticMatches == \E h \in BagToSet(handlers) : StaticMatched(h)

FetchResolves ==
    \E h \in BagToSet(handlers) : \E ok \in BOOLEAN : FetchResolved(h, ok)

FetchRejects == \E h \in BagToSet(handlers) : FetchRejected(h)

CacheOpens == \E h \in BagToSet(handlers) : CacheOpened(h)

PutsDone == \E p \in puts : PutDone(p)

ApiMatches == \E h \in BagToSet(handlers) : ApiMatched(h)

RequestStores ==
    \E h \in BagToSet(handlers) : \E dbOk \in BOOLEAN : RequestStored(h, dbOk)

\* The worker beside a page that is online.
GateInit ==
    /\ Init
    /\ isOnline
    /\ endpointOk

GateNext ==
    \/ \E request \in Requests : FetchEvent(request)
    \/ StaticMatches
    \/ FetchResolves
    \/ FetchRejects
    \/ CacheOpens
    \/ PutsDone
    \/ ApiMatches
    \/ RequestStores
    \/ NetChange
    \/ ContentChange

GateSpec == GateInit /\ [][GateNext]_vars

\* ---- the service worker on navigations and on the remaining requests
PageMatches == \E h \in BagToSet(handlers) : PageMatched(h)

RootMatches == \E h \in BagToSet(handlers) : RootMatched(h)

PageFetchEvents ==
    /\ BagCardinality(handlers) < MaxPageHandlers
    /\ \E request \in PageRequests : FetchEvent(request)

FetchesIgnored ==
    \E request \in PageRequests : \E ok \in BOOLEAN : FetchIgnored(request, ok)

InstallEvents == \E ok \in BOOLEAN : InstallEvent(ok)

PageNext ==
    \/ InstallEvents
    \/ PageFetchEvents
    \/ FetchesIgnored
    \/ StaticMatches
    \/ FetchResolves
    \/ FetchRejects
    \/ CacheOpens
    \/ PutsDone
    \/ PageMatches
    \/ RootMatches
    \/ NetChange
    \/ ContentChange

PageSpec == GateInit /\ [][PageNext]_vars

\* ---- the worker's background sync and the requests it has stored

\* The tags the sync listener knows.  The page registers the first two
\* (when its pending lists are not empty); nothing registers the third, and
\* it is taken here as fired all the same.
SyncTags == {"sync-sos-alerts", "sync-voice-queries", "sync-failed-requests"}

\* syncFailedRequests: `await store.getAll()` gives the IDBRequest itself (it
\* is no promise), not the stored records, so `for (... of requests)` throws
\* a TypeError, which the outer catch logs: no stored request is fetched and
\* none is deleted.
syncFailedRequests == UNCHANGED <<netUp, failedRequests>>

\* The worker's syncSOSAlerts and syncVoiceQueries: they read their lists
\* with localStorage, which a worker does not have; getStoredData catches the
\* ReferenceError and returns [], so nothing is fetched.
syncStoredList == UNCHANGED <<netUp, failedRequests>>

\* The sync listener, for a sync event with the tag.
SyncEvent(tag) ==
    /\ IF tag = "sync-failed-requests" THEN syncFailedRequests
       ELSE syncStoredList
    /\ UNCHANGED <<version, caches, puts, handlers, served, reply>>
    /\ UNCHANGED pageVars

SyncEvents == \E tag \in SyncTags : SyncEvent(tag)

\* The submissions among the requests.
WriteRequests == {request \in Requests : request.method = "POST"}

\* The worker with submissions only, beside the page's connectivity monitor,
\* with the fairness of the platform: a fetch settles, a suspended handler
\* goes on, and sync events keep coming.
RetryNext ==
    \/ \E request \in WriteRequests : FetchEvent(request)
    \/ FetchResolves
    \/ FetchRejects
    \/ RequestStores
    \/ SyncEvents
    \/ NetChange
    \/ HandleOnline
    \/ HandleOffline

RetryFairness ==
    /\ WF_vars(FetchResolves)
    /\ WF_vars(FetchRejects)
    /\ WF_vars(RequestStores)
    /\ WF_vars(SyncEvents)

RetrySpec == GateInit /\ [][RetryNext]_vars /\ RetryFairness

\* ---- properties

\* The suspended processSyncQueue invocations that took item i at their start.
DrainsOf(i) ==
    LET holding == {dr \in BagToSet(drains) :
                       \E k \in 1..Len(dr.items) : dr.items[k] = i}
    IN  [dr \in holding |-> CopiesIn(dr, drains)]

\* No request has failed so far.
NoFailure == \A i \in ItemIds : failures[i] = 0

\* Nothing of the queue's work is in progress or scheduled.
Quiescent ==
    /\ drains = EmptyBag
    /\ \A i \in ItemIds : timers[i] = 0 /\ retrying[i] = 0

\* A step issues a fetch for item i: a retry timer's syncItem, or a
\* processSyncQueue that starts or moves on and now awaits i.
Sends(i) ==
    \/ retrying'[i] > retrying[i]
    \/ \E dr \in BagToSet(drains') :
          /\ Awaited(dr) = i
          /\ CopiesIn(dr, drains') > CopiesIn(dr, drains)

\* C1: when two processSyncQueue invocations are in flight at the same time on
\* an entry that both took as pending, and every delivery succeeds, the
\* endpoint has received that entry at most once (and exactly once when done).
C1_ConcurrentDrainsDeliverOnce ==
    (NoFailure /\ endpointOk) =>
        \A i \in ItemIds :
            /\ BagCardinality(DrainsOf(i)) >= 2 => sent[i] <= 1
            /\ (Quiescent /\ item[i].status = "completed") => sent[i] = 1

\* C2: as long as every delivery succeeds, whatever the sequence of
\* addToSyncQueue calls and drains, no entry has been sent more than once, and
\* once the work is done every entry that was sent is completed.
C2_AtMostOncePerEntry ==
    (NoFailure /\ endpointOk) =>
        \A i \in ItemIds :
            /\ sent[i] <= 1
            /\ (Quiescent /\ sent[i] >= 1) => item[i].status = "completed"

\* C3: once an entry is failed, no step issues a request for it.
C3_NoAttemptAfterFailed ==
    [][\A i \in ItemIds : item[i].status = "failed" => ~Sends(i)]_vars

\* C4: an entry none of whose requests succeeded is failed as soon as
\* maxRetries of its requests have failed, and not before.
C4_FailedAfterMaxAttempts ==
    \A i \in ItemIds :
        /\ (failures[i] >= maxRetries /\ item[i].status # "completed")
               => item[i].status = "failed"
        /\ item[i].status = "failed" => failures[i] >= maxRetries

\* C5: a retry timer that runs when its entry is completed or failed issues no
\* request and changes neither the entry nor the queue.
C5_LateRetryIsNoOp ==
    [][\A i \in ItemIds :
          (timers'[i] < timers[i] /\ item[i].status \in {"completed", "failed"})
              => (~Sends(i) /\ item' = item /\ syncQueue' = syncQueue)]_vars

\* C6: the retries counter of an entry never exceeds maxRetries.
C6_RetriesBounded == \A i \in ItemIds : item[i].retries <= maxRetries

\* C7: while the manager is online and the endpoint accepts, a pending entry
\* is eventually completed, unless the connection or the endpoint goes away
\* first; so if both stay, no entry stays pending.
C7_PendingEventuallyCompleted ==
    \A i \in ItemIds :
        (isOnline /\ endpointOk /\ item[i].status = "pending")
            ~> (item[i].status = "completed" \/ ~(isOnline /\ endpointOk))

\* An entry whose delivery had failed has been delivered after all.
C7_Witness ==
    \E i \in ItemIds :
        /\ item[i].status = "completed"
        /\ item[i].retries > 0
        /\ isOnline /\ endpointOk

\* C8: for entries queued offline and one return of the connection, with an
\* accepting endpoint: nothing is sent while offline, no entry is sent more
\* than once, and when the work is done every entry is completed.
C8_OfflineEntrySentOnce ==
    \A i \in ItemIds :
        /\ ~isOnline => sent[i] = 0
        /\ sent[i] <= 1
        /\ (isOnline /\ Quiescent /\ item[i].status # "none")
               => item[i].status = "completed"

\* C9: a step that takes the manager from offline to online starts exactly
\* one processSyncQueue (one more invocation, on the entries pending at that
\* moment, when there are any), and a step that takes it offline starts none.
C9_OnlineTransitionDrainsOnce ==
    [][/\ (~isOnline /\ isOnline') =>
              drains' = IF Len(PendingItems(syncQueue, item)) # 0
                        THEN drains (+) SetToBag(
                                 {Suspended(PendingItems(syncQueue, item), 1)})
                        ELSE drains
       /\ (isOnline /\ ~isOnline') => (drains' = drains /\ sent' = sent)]_vars

\* The handler of 'online' has run on a manager that was offline with two
\* queued entries: its one processSyncQueue awaits the first of them.
C9_Witness ==
    /\ isOnline
    /\ NoFailure
    /\ drains = SetToBag({Suspended(<<1, 2>>, 1)})
    /\ sent[1] = 1 /\ sent[2] = 0

\* C10: an 'online' notification that finds the manager online already starts
\* no processSyncQueue.
C10_RepeatedOnlineNoDrain ==
    [][(isOnline /\ HandleOnline) => drains' = drains]_vars

\* C11: when the worker settles a POST whose fetch was rejected, the request
\* has become one more pending entry of the page's sync queue and the caller
\* gets the 202 'queued' response.
C11_FailedWriteIsEnqueued ==
    [][(reply' # reply /\ reply'.req.method = "POST" /\ reply'.netFailed)
          => /\ reply'.resp.status = 202
             /\ Len(PendingItems(syncQueue', item'))
                    = Len(PendingItems(syncQueue, item)) + 1]_vars
\* C12: a request the worker has stored after a failed fetch does not stay
\* stored for ever once the network is back: it is sent again and, accepted,
\* leaves the store, unless the network goes away again first.
C12_StoredRequestEventuallyRetried ==
    (failedRequests > 0 /\ netUp) ~> (failedRequests = 0 \/ ~netUp)
\* The stored queue holds item i.
InStored(i) == \E k \in 1..Len(stored) : stored[k].id = i

\* The queue in memory holds item i.
InQueue(i) == \E k \in 1..Len(syncQueue) : syncQueue[k] = i

C14_WriteFailureIsSwallowed ==
    \A i \in writeFailed : i \notin thrown /\ ~InQueue(i)

\* C15: a read at most 6 hours (6 hours included) after the last
\* cacheWeatherData returns the record that call stored and keeps it; a read
\* later than that returns null and removes the record, and so does every
\* read after it until cacheWeatherData is called again.
C15_WeatherReadHonoursMaxAge ==
    [][(weatherRead' # weatherRead /\ lastCached # null)
          => IF weatherNow - lastCached.cachedAt <= maxAge
             THEN weatherRead'.result = lastCached /\ weatherStore' = lastCached
             ELSE weatherRead'.result = null /\ weatherStore' = null]_vars

\* C16: a request for a static file that a caller has already got an ok
\* network response for is answered from the cache, whatever the network
\* does; and a request for a static file that finds nothing in the cache and
\* whose fetch fails is answered with the 503 response.
C16_StaticIsCacheFirst ==
    [][(reply' # reply /\ Strategy(reply'.req) = "static")
          => /\ reply'.late => reply'.resp = CachedResponse(reply'.found)
             /\ (reply'.found = 0 /\ reply'.netFailed)
                    => reply'.resp = NewResponse(503, "File not available offline")]_vars

\* C17: a reply of handleAPIRequest whose fetch failed is the response the
\* cache holds for the request when it holds one, and the offline payload of
\* the endpoint only when it holds none; a reply whose fetch did not fail is
\* the network's response.
C17_ApiIsNetworkFirst ==
    [][(reply' # reply /\ Strategy(reply'.req) = "api")
          => IF ~reply'.netFailed THEN reply'.resp.from = "network"
             ELSE IF reply'.found # 0
             THEN reply'.resp = CachedResponse(reply'.found)
             ELSE reply'.resp = handleOfflineAPIResponse(reply'.req)]_vars

\* C18: the hourly purge takes out of the queue the completed entries that
\* are more than 24 hours old and no other entry, and keeps the order of
\* those that stay.
C18_PurgeRemovesExactlyExpired ==
    [][PeriodicCleanup
          => syncQueue' = SelectSeq(syncQueue,
                 LAMBDA i : ~(/\ item[i].status = "completed"
                              /\ now - item[i].completedAt > RetentionWindow))]_vars

\* The entries of the queue that have the status.
WithStatus(status) ==
    {k \in 1..Len(syncQueue) : item[syncQueue[k]].status = status}

\* C19: a getSyncStats call leaves the queue in memory, the stored queue,
\* the connectivity flag and every entry as they are, sends no request, and
\* returns the total of the queue and the numbers of its pending, completed
\* and failed entries as they are at the call.
C19_GetSyncStatsIsPureRead ==
    [][stats' # stats
          => /\ UNCHANGED <<queueVars, gateVars>>
             /\ stats'.total = Len(syncQueue)
             /\ stats'.pending = Cardinality(WithStatus("pending"))
             /\ stats'.completed = Cardinality(WithStatus("completed"))
             /\ stats'.failed = Cardinality(WithStatus("failed"))
             /\ stats'.isOnline = isOnline]_vars

\* getSyncStats has returned the counts of a queue that holds a completed
\* and a failed entry, and the queue is as it was.
C19_Witness ==
    /\ stats.called
    /\ stats.total = 2 /\ stats.completed = 1 /\ stats.failed = 1
    /\ Len(syncQueue) = 2
    /\ Cardinality(WithStatus("completed")) = 1
    /\ Cardinality(WithStatus("failed")) = 1

\* C20: an entry that is completed stays completed and an entry that is
\* failed stays failed, whatever drains and retry timers run.
C20_StatusOnlyLeavesPending ==
    [][\A i \in ItemIds :
          /\ item[i].status = "completed" => item'[i].status = "completed"
          /\ item[i].status = "failed" => item'[i].status = "failed"]_vars

\* C21: a processSyncQueue that starts holds the entries that are pending at
\* that moment, all of them and no other, in the order of their enqueueing;
\* and when the fetch it awaits settles, delivered or failed, it goes on to
\* await the next of its entries, and ends after the last one.
C21_DrainAttemptsSnapshotInOrder ==
    [][\A dr \in BagToSet(drains) \cup BagToSet(drains') :
          /\ (dr.idx = 1 /\ CopiesIn(dr, drains') > CopiesIn(dr, drains))
                 => /\ {dr.items[k] : k \in 1..Len(dr.items)}
                           = {i \in ItemIds : item'[i].status = "pending"}
                    /\ \A k, l \in 1..Len(dr.items) :
                           k < l => dr.items[k] < dr.items[l]
          /\ CopiesIn(dr, drains') < CopiesIn(dr, drains)
                 => IF dr.idx < Len(dr.items)
                    THEN CopiesIn(Suspended(dr.items, dr.idx + 1), drains')
                            = CopiesIn(Suspended(dr.items, dr.idx + 1), drains) + 1
                    ELSE BagCardinality(drains') = BagCardinality(drains) - 1]_vars

\* A processSyncQueue awaits its second entry after the fetch of its first
\* one has failed.
C21_Witness ==
    /\ drains = SetToBag({Suspended(<<1, 2>>, 2)})
    /\ item[1].retries = 1 /\ failures[1] = 1
    /\ item[1].status = "pending" /\ item[2].status = "pending"
    /\ sent[2] = 1

\* C22: when a fetch that a processSyncQueue awaits fails and the retries
\* counter of its entry, incremented, is k: for k below maxRetries one timer
\* more is set for that entry, with the delay retryDelay * k (5000 ms for
\* k = 1, 10000 ms for k = 2), and none for another entry; for k at
\* maxRetries or above no timer is set.
C22_RetryDelayIsLinear ==
    [][\A dr \in BagToSet(drains) :
          DrainFailed(dr)
              => LET i == Awaited(dr)
                     k == item[i].retries + 1
                 IN  /\ item'[i].retries = k
                     /\ \A j \in ItemIds \ {i} :
                            timers'[j] = timers[j] /\ delays'[j] = delays[j]
                     /\ IF k < maxRetries
                        THEN /\ timers'[i] = timers[i] + 1
                             /\ delays'[i] = 5000 * k
                        ELSE timers'[i] = timers[i] /\ delays'[i] = delays[i]]_vars

\* The second failure of entry 1 has set its second timer, 10000 ms ahead.
C22_Witness ==
    /\ item[1].retries = 2 /\ failures[1] = 2
    /\ timers[1] = 2
    /\ delays[1] = 10000

\* C23: every fetch for an entry that ends in a failure (fetch rejected, a
\* status that is not ok, a body that is not JSON, a success field that is
\* not true), whether a processSyncQueue or a retry timer issued it,
\* increments the retries counter of the entry and does not mark it
\* completed.
C23_EveryFailureCounts ==
    [][\A i \in ItemIds :
          failures'[i] > failures[i]
              => /\ item'[i].retries = item[i].retries + 1
                 /\ item'[i].completedAt = item[i].completedAt]_vars

C25_NoRejectionEscapes == ~unhandled

\* C26: a step that issues a fetch for an entry is a step of a manager
\* whose isOnline flag is true when the fetch is issued.
C26_NoAttemptWhileOffline ==
    [][\A i \in ItemIds : Sends(i) => isOnline']_vars

\* C27: a step that takes the manager from online to offline changes nothing
\* but the flag: the queue in memory and in localStorage, the entries, the
\* invocations of processSyncQueue in flight, the timers and the requests
\* sent are what they were.
C27_OfflineOnlySetsFlag ==
    [][(isOnline /\ ~isOnline')
          => UNCHANGED <<item, syncQueue, stored, drains, timers, delays,
                         retrying, sent, failures>>]_vars

\* The 'offline' event has arrived while a processSyncQueue awaited the
\* first of two pending entries: the invocation, the queue and the entries
\* are as they were.
C27_Witness ==
    /\ ~isOnline
    /\ drains = SetToBag({Suspended(<<1, 2>>, 1)})
    /\ syncQueue = <<1, 2>>
    /\ Len(stored) = 2
    /\ item[1].status = "pending" /\ item[2].status = "pending"
    /\ sent[1] = 1 /\ sent[2] = 0

\* C28: the dynamic cache's entry for an API or a page request changes only to
\* the response of an ok fetch of that request; when a handler answers such a
\* request with the ok response it has just fetched, the cache's entry for
\* the request is that response; and when it answers with anything else, the
\* entry is what it was.
C28_CacheHoldsFetchedResponse ==
    [][/\ \A r \in AllRequests :
             (/\ Strategy(r) \in {"api", "page"}
              /\ caches'[DYNAMIC_CACHE][r] # caches[DYNAMIC_CACHE][r])
                 => \E p \in puts : /\ p.cache = DYNAMIC_CACHE /\ p.req = r
                                    /\ p.version = caches'[DYNAMIC_CACHE][r]
       /\ (reply' # reply /\ Strategy(reply'.req) \in {"api", "page"})
             => IF reply'.resp.from = "network" /\ reply'.resp.status = 200
                THEN caches'[DYNAMIC_CACHE][reply'.req] = reply'.resp.version
                ELSE caches'[DYNAMIC_CACHE][reply'.req]
                        = caches[DYNAMIC_CACHE][reply'.req]]_vars

\* C29: a reply of handlePageRequest whose fetch did not fail is the
\* network's response; one whose fetch failed is the cached page of the
\* request when there is one, otherwise the cached page '/' when there is
\* one, otherwise the 503 response 'Offline'.  It is a response in every
\* case.
C29_PageAlwaysAnswered ==
    [][(reply' # reply /\ Strategy(reply'.req) = "page")
          => /\ reply'.resp.status # 0
             /\ IF ~reply'.netFailed THEN reply'.resp.from = "network"
                ELSE IF reply'.found # 0
                THEN reply'.resp = CachedResponse(reply'.found)
                ELSE IF CachesMatch(caches, RootRequest) # 0
                THEN reply'.resp
                        = CachedResponse(CachesMatch(caches, RootRequest))
                ELSE reply'.resp = NewResponse(503, "Offline")]_vars

\* C30: every fetch event gives its request to exactly one handler, whatever
\* the method of the request; for a GET it is the handler of the first of
\* static file, API request, page that the request is, and handleOtherRequest
\* when it is none of them.
C30_EveryRequestHasOneStrategy ==
    [][\A request \in AllRequests :
          (FetchEvent(request) \/ \E ok \in BOOLEAN : FetchIgnored(request, ok))
              => /\ BagCardinality(handlers') = BagCardinality(handlers) + 1
                 /\ \E h \in BagToSet(handlers') :
                       /\ h.req = request
                       /\ CopiesIn(h, handlers') = CopiesIn(h, handlers) + 1
                       /\ request.method = "GET"
                             => h.fn = IF isStaticFile(request) THEN "static"
                                       ELSE IF isAPIRequest(request) THEN "api"
                                       ELSE IF isPageRequest(request) THEN "page"
                                       ELSE "other"]_vars

\* C31: when syncSOSAlerts writes the list back, the list holds alerts of the
\* call's own snapshot only, so an alert appended since is gone from it; and
\* an alert that was submitted, that the server has not got, and that is
\* neither in the list nor in the snapshot of a suspended call stays so: no
\* later step posts it or puts it back.
C31_OverwrittenAlertStaysLost ==
    [][/\ \A p \in BagToSet(passes) :
             (/\ p.idx = Len(p.items)
              /\ \E ok \in BOOLEAN : AlertAnswered(p, ok))
                 => Elements(pendingSOSAlerts') \subseteq Elements(p.items)
       /\ \A alert \in Alerts :
             (/\ alert \in submitted.alerts \ posted.alerts
              /\ alert \notin Elements(pendingSOSAlerts)
              /\ \A p \in BagToSet(passes) : alert \notin Elements(p.items))
                 => /\ alert \in submitted'.alerts \ posted'.alerts
                    /\ alert \notin Elements(pendingSOSAlerts')
                    /\ \A p \in BagToSet(passes') :
                          alert \notin Elements(p.items)]_vars

\* Alert 1 was pending and a call posted it; alert 2 was appended while the
\* call awaited, and the call's write has left the list empty: alert 2 is
\* nowhere and no call is suspended.
C31_Witness ==
    /\ submitted.alerts = {[id |-> 1], [id |-> 2]}
    /\ posted.alerts = {[id |-> 1]}
    /\ pendingSOSAlerts = <<>>
    /\ passes = EmptyBag

C33_StoredEqualsQueueAtRest ==
    (drains = EmptyBag /\ \A i \in ItemIds : retrying[i] = 0)
        => stored = Serialize(syncQueue, item)

\* C34: in every state, an entry has a completedAt exactly when its status
\* is 'completed'.
C34_CompletedAtIffCompleted ==
    \A i \in ItemIds :
        (item[i].completedAt # 0) <=> (item[i].status = "completed")

\* C35: a getCachedWeatherData call returns something other than null, and
\* isCacheValid returns true, only when cacheWeatherData has been called and
\* its last call is at most 6 hours old.
C35_ValidOnlyIfCachedRecently ==
    [][(GetCachedWeatherData /\ isCacheValid(weatherRead'.result))
          => /\ lastCached # null
             /\ weatherNow - lastCached.cachedAt <= maxAge]_vars

====
